---- MODULE Spec2Model ----
(***************************************************************************)
(* Model of the political-reasoner web service: the error classifier and   *)
(* the retry decorator of app/utils.py, the reasoner methods of            *)
(* app/reasoner.py and the HTTP handlers of app/routes.py.                 *)
(*                                                                         *)
(* Texts are TLA+ strings; Len, \o and SubSeq act on them character by     *)
(* character.  The emoji that prefix the user messages in the source are   *)
(* left out of the message constants (the lexer takes ASCII only).         *)
(***************************************************************************)
EXTENDS Integers, Sequences, FiniteSets, TLC

(***************************************************************************)
(* Bounds of the model.                                                    *)
(***************************************************************************)
MaxFragments == 2
MaxRetriesBound == 3

\* number of wrapper calls running concurrently
MaxCalls == 2

(***************************************************************************)
(* String helpers: Python's `in`, str.lower, str.strip, str.split/join.    *)
(***************************************************************************)
Contains(s, p) ==
    \E i \in 1..(Len(s) - Len(p) + 1) : SubSeq(s, i, i + Len(p) - 1) = p

UpperAlpha == "ABCDEFGHIJKLMNOPQRSTUVWXYZ"

LowerAlpha == "abcdefghijklmnopqrstuvwxyz"

UpperChars == { SubSeq(UpperAlpha, i, i) : i \in 1..Len(UpperAlpha) }

LowerMap ==
    [c \in UpperChars |->
        LET i == CHOOSE j \in 1..Len(UpperAlpha) : SubSeq(UpperAlpha, j, j) = c
        IN  SubSeq(LowerAlpha, i, i)]

LowerChar(c) == IF c \in UpperChars THEN LowerMap[c] ELSE c

RECURSIVE Lower(_)
\* str.lower(), by halves to keep the evaluation shallow
Lower(s) ==
    IF Len(s) = 0 THEN ""
    ELSE IF Len(s) = 1 THEN LowerChar(s)
    ELSE LET h == Len(s) \div 2
         IN  Lower(SubSeq(s, 1, h)) \o Lower(SubSeq(s, h + 1, Len(s)))

IsSpace(c) == c \in { " ", "\t", "\n" }

SpaceAt(s, i) == IsSpace(SubSeq(s, i, i))

Min(S) == CHOOSE x \in S : \A y \in S : x <= y

Max(S) == CHOOSE x \in S : \A y \in S : x >= y

\* the k-th smallest element of a set of integers
Kth(S, k) == CHOOSE x \in S : Cardinality({ y \in S : y < x }) = k - 1

\* str.strip()
Strip(s) ==
    IF Len(s) > 0 /\ ~SpaceAt(s, 1) /\ ~SpaceAt(s, Len(s)) THEN s
    ELSE LET inked == { i \in 1..Len(s) : ~SpaceAt(s, i) }
         IN  IF inked = {} THEN "" ELSE SubSeq(s, Min(inked), Max(inked))

StartsWith(s, p) == Len(s) >= Len(p) /\ SubSeq(s, 1, Len(p)) = p

\* str.split() without arguments: the whitespace-separated words
Words(s) ==
    LET starts == { i \in 1..Len(s) : ~SpaceAt(s, i) /\ (i = 1 \/ SpaceAt(s, i - 1)) }
        ends   == { i \in 1..Len(s) : ~SpaceAt(s, i) /\ (i = Len(s) \/ SpaceAt(s, i + 1)) }
    IN  [k \in 1..Cardinality(starts) |-> SubSeq(s, Kth(starts, k), Kth(ends, k))]

RECURSIVE Join(_, _)
\* sep.join(words)
Join(words, sep) ==
    IF words = << >> THEN ""
    ELSE IF Len(words) = 1 THEN words[1]
    ELSE words[1] \o sep \o Join(Tail(words), sep)

\* str.split(sep) for a one-character separator: empty pieces are kept
Split(s, sep) ==
    LET cuts == { i \in 1..Len(s) : SubSeq(s, i, i) = sep }
        n    == Cardinality(cuts)
    IN  [k \in 1..(n + 1) |->
            SubSeq(s, (IF k = 1 THEN 1 ELSE Kth(cuts, k - 1) + 1),
                      (IF k = n + 1 THEN Len(s) ELSE Kth(cuts, k) - 1))]

\* seq[:n]
Prefix(seq, n) == SubSeq(seq, 1, IF Len(seq) < n THEN Len(seq) ELSE n)

(***************************************************************************)
(* utils.parse_openai_error: the ordered pattern table, then the HTTP      *)
(* status pass, then the fallback.                                         *)
(***************************************************************************)
error_patterns ==
    << [pattern    |-> "insufficient_quota",
        message    |-> "Kuota API OpenAI telah habis. Silakan hubungi administrator untuk mengisi ulang kuota.",
        suggestion |-> "Coba lagi dalam beberapa saat atau hubungi tim teknis."],
       [pattern    |-> "rate_limit",
        message    |-> "Terlalu banyak permintaan dalam waktu singkat. Mohon tunggu sebentar.",
        suggestion |-> "Silakan coba lagi dalam 1-2 menit."],
       [pattern    |-> "invalid_api_key",
        message    |-> "Konfigurasi API tidak valid. Silakan hubungi administrator.",
        suggestion |-> "Tim teknis perlu memeriksa pengaturan API."],
       [pattern    |-> "model_not_found",
        message    |-> "Model AI tidak tersedia saat ini.",
        suggestion |-> "Coba lagi nanti atau hubungi support."],
       [pattern    |-> "context_length_exceeded",
        message    |-> "Teks yang dianalisis terlalu panjang.",
        suggestion |-> "Coba dengan teks yang lebih pendek (maksimal 5000 karakter)."],
       [pattern    |-> "server_error",
        message    |-> "Server OpenAI mengalami gangguan sementara.",
        suggestion |-> "Silakan coba lagi dalam beberapa menit."],
       [pattern    |-> "timeout",
        message    |-> "Waktu analisis habis. Koneksi mungkin lambat.",
        suggestion |-> "Periksa koneksi internet dan coba lagi."],
       [pattern    |-> "network_error",
        message    |-> "Masalah koneksi internet terdeteksi.",
        suggestion |-> "Periksa koneksi internet Anda dan coba lagi."] >>

PatternInfo(p) ==
    LET i == CHOOSE j \in 1..Len(error_patterns) : error_patterns[j].pattern = p
    IN  [message |-> error_patterns[i].message, suggestion |-> error_patterns[i].suggestion]

FallbackInfoNetworkError ==
    [message    |-> "Masalah koneksi internet terdeteksi.",
     suggestion |-> "Periksa koneksi internet Anda dan coba lagi."]

FallbackInfo ==
    [message    |-> "Sistem AI mengalami kendala teknis sementara.",
     suggestion |-> "Silakan coba lagi dalam beberapa menit atau hubungi support jika masalah berlanjut."]

MatchingPatterns(error_lower) ==
    { j \in 1..Len(error_patterns) : Contains(error_lower, error_patterns[j].pattern) }

LastMatch(error_lower) ==
    LET m == MatchingPatterns(error_lower)
    IN  IF m = {} THEN 0 ELSE CHOOSE j \in m : \A k \in m : j >= k

FirstMatch(error_lower) ==
    LET m == MatchingPatterns(error_lower)
    IN  IF m = {} THEN 0 ELSE CHOOSE j \in m : \A k \in m : j <= k

StatusPass(error_str) ==
    IF Contains(error_str, "429") THEN PatternInfo("rate_limit")
    ELSE IF Contains(error_str, "500") \/ Contains(error_str, "502") \/ Contains(error_str, "503")
         THEN PatternInfo("server_error")
    ELSE IF Contains(error_str, "401") \/ Contains(error_str, "403")
         THEN PatternInfo("invalid_api_key")
    ELSE FallbackInfo

parse_openai_error(error_str) ==
    LET error_lower == Lower(error_str)
        j == FirstMatch(error_lower)
    IN  IF j # 0
        THEN [message |-> error_patterns[j].message, suggestion |-> error_patterns[j].suggestion]
        ELSE StatusPass(error_str)

(***************************************************************************)
(* The retryable-keyword test of the retry wrapper.                        *)
(***************************************************************************)
retryable_errors ==
    << "rate_limit", "429", "quota", "server_error", "500", "502", "503", "timeout" >>

is_retryable_no_429(error_msg) ==
    \E k \in 1..Len(retryable_errors) :
        retryable_errors[k] # "429" /\ Contains(error_msg, retryable_errors[k])

is_retryable(error_msg) ==
    \E k \in 1..Len(retryable_errors) : Contains(error_msg, retryable_errors[k])

(***************************************************************************)
(* Error texts the classifier is exercised on: every concatenation of at   *)
(* most MaxFragments fragments.                                            *)
(***************************************************************************)
Fragments ==
    { "insufficient_quota", "rate_limit", "Rate_Limit", "invalid_api_key",
      "model_not_found", "context_length_exceeded", "server_error", "timeout",
      "TIMEOUT", "network_error", "quota", "429", "500", "502", "503", "401",
      "403", "4", "29", "Error code: ", " connection refused" }

RECURSIVE TextsOf(_)
TextsOf(n) ==
    IF n = 0 THEN {""}
    ELSE LET shorter == TextsOf(n - 1)
         IN  shorter \cup { t \o f : t \in shorter, f \in Fragments }

ErrorStrings == TextsOf(MaxFragments)

(***************************************************************************)
(* State.                                                                  *)
(*   error_str, classified      the classifier's input and its result      *)
(*   max_retries ... jitter     the decorator's parameters                 *)
(*   attempt, delay,            the wrapper's locals                       *)
(*   last_exception                                                        *)
(*   w_pc                       "idle", "loop" (at the head of the for     *)
(*                              loop) or "done"                            *)
(*   w_outcome                  how the wrapper call ended                 *)
(*   invocations, sleeps,       what the call did: number of func calls,   *)
(*   op_log                     the time.sleep arguments, func's outcomes  *)
(*   req                        the HTTP request being handled             *)
(*   r_pc                       "idle", "calling" (inside                  *)
(*                              _make_openai_request) or "responded"       *)
(*   stage                      the reasoner method that is calling        *)
(*   r_analysis, r_insights,    what the reasoner methods returned         *)
(*   r_narrative, r_policy                                                 *)
(*   r_response                 the HTTP response                          *)
(*   api_calls                  one entry (the stage) per call of          *)
(*                              chat.completions.create                    *)
(*   stage_log                  the reasoner methods called, in order      *)
(*   validation_error           a validation error was raised or answered  *)
(***************************************************************************)
VARIABLES error_str, classified,
          max_retries, initial_delay, exponential_base, jitter,
          attempt, delay, last_exception, w_pc, w_outcome,
          invocations, sleeps, op_log,
          req, r_pc, stage, r_analysis, r_insights, r_narrative, r_policy,
          r_response, api_calls, stage_log, validation_error,
          callee, arg_text, arg_data, call_result,
          calls

classifier_vars == << error_str, classified >>

\* a single call of a function of utils.py or reasoner.py: its name, its
\* argument (a text or a parsed JSON object) and what it returned or raised;
\* calls holds the locals of each of several concurrent wrapper calls
call_vars == << callee, arg_text, arg_data, call_result, calls >>

param_vars == << max_retries, initial_delay, exponential_base, jitter >>

wrapper_vars == << attempt, delay, last_exception, w_pc, w_outcome,
                   invocations, sleeps, op_log >>

route_vars == << req, r_pc, stage, r_analysis, r_insights, r_narrative, r_policy,
                 r_response, api_calls, stage_log, validation_error >>

vars == << classifier_vars, param_vars, wrapper_vars, route_vars, call_vars >>

(***************************************************************************)
(* utils.UserFriendlyError: technical_message falls back to user_message   *)
(* when it is falsy (None or the empty string).                            *)
(***************************************************************************)
UserFriendlyError(user_message, technical_message) ==
    [user_message      |-> user_message,
     technical_message |-> IF technical_message = "" THEN user_message
                           ELSE technical_message]

\* str(e) of a UserFriendlyError is the text given to Exception.__init__
StrOfError(e) == e.technical_message

(***************************************************************************)
(* Values.  A Python exception path is a result [ok |-> FALSE, e |-> ...]; *)
(* JSON values carry a tag t; dicts are functions from keys to values.     *)
(***************************************************************************)
Ok(v) == [ok |-> TRUE, v |-> v]

Err(e) == [ok |-> FALSE, e |-> e]

PyNone == [none |-> TRUE]

\* no request is being handled
NoRequest ==
    /\ req = PyNone
    /\ r_pc = "idle"
    /\ stage = ""
    /\ r_analysis = PyNone
    /\ r_insights = PyNone
    /\ r_narrative = PyNone
    /\ r_policy = PyNone
    /\ r_response = PyNone
    /\ api_calls = << >>
    /\ stage_log = << >>
    /\ validation_error = FALSE

NoCall ==
    /\ callee = ""
    /\ arg_text = ""
    /\ arg_data = << >>
    /\ call_result = PyNone
    /\ calls = << >>

JNull == [t |-> "null"]

JStr(s) == [t |-> "str", s |-> s]

JList(l) == [t |-> "list", l |-> l]

JBool(b) == [t |-> "bool", b |-> b]

\* sentiment objects {"label": ..., "score": ...}, score in tenths
JSentiment(label, score) == [t |-> "sentiment", label |-> label, score |-> score]

\* a value of time.time()
JTime == [t |-> "time"]

\* dict.get(k, default)
DictGet(dict, k, default) == IF k \in DOMAIN dict THEN dict[k] ELSE default

\* "not v" for a JSON value
JFalsy(v) ==
    \/ v.t = "null"
    \/ v.t = "str" /\ v.s = ""
    \/ v.t = "list" /\ v.l = << >>
    \/ v.t = "bool" /\ ~v.b

(***************************************************************************)
(* utils.validate_input_data, utils.clean_text                             *)
(***************************************************************************)
field_names ==
    [text |-> "Teks untuk analisis", question |-> "Pertanyaan",
     context |-> "Konteks", issue |-> "Isu politik"]

RECURSIVE MissingFields(_, _)
MissingFields(data, required_fields) ==
    IF required_fields = << >> THEN << >>
    ELSE LET field == Head(required_fields)
             rest  == MissingFields(data, Tail(required_fields))
         IN  IF field \notin DOMAIN data \/ data[field] = ""
             THEN << field >> \o rest
             ELSE rest

RECURSIVE MissingNames(_)
MissingNames(missing) ==
    IF missing = << >> THEN << >>
    ELSE << DictGet(field_names, Head(missing), Head(missing)) >> \o MissingNames(Tail(missing))

RECURSIVE QuotedFields(_)
QuotedFields(missing) ==
    IF missing = << >> THEN << >>
    ELSE << "'" \o Head(missing) \o "'" >> \o QuotedFields(Tail(missing))

validate_input_data(data, required_fields) ==
    IF DOMAIN data = {}
    THEN Err(UserFriendlyError("Data input kosong. Silakan isi form dengan lengkap.",
                               "Empty input data"))
    ELSE LET missing_fields == MissingFields(data, required_fields)
         IN  IF missing_fields # << >>
             THEN Err(UserFriendlyError(
                     "Field berikut harus diisi: " \o Join(MissingNames(missing_fields), ", "),
                     "Missing required fields: [" \o Join(QuotedFields(missing_fields), ", ") \o "]"))
             ELSE Ok(TRUE)

MinTextLength == 10

MaxTextLength == 10000

TooShortInclusive(text) == Len(text) <= MinTextLength

TooShort(text) == Len(text) < MinTextLength

clean_text(text) ==
    IF text = ""
    THEN Err(UserFriendlyError(
            "Teks tidak boleh kosong. Silakan masukkan teks untuk dianalisis.",
            "Empty text input"))
    ELSE LET collapsed == Join(Words(text), " ")
         IN  IF TooShort(collapsed)
             THEN Err(UserFriendlyError(
                     "Teks terlalu pendek. Minimal 10 karakter untuk analisis yang akurat.",
                     "Text too short: " \o ToString(Len(collapsed)) \o " characters"))
             ELSE IF Len(collapsed) > MaxTextLength
                  THEN Ok(Strip(SubSeq(collapsed, 1, MaxTextLength) \o "..."))
                  ELSE Ok(Strip(collapsed))

(***************************************************************************)
(* utils.validate_openai_response on a response object                     *)
(*   [present, choices: sequence of [has_message, content]]                *)
(***************************************************************************)
validate_openai_response(response) ==
    IF ~response.present
    THEN Err(UserFriendlyError("AI tidak memberikan respons. Silakan coba lagi.",
                               "Empty response from OpenAI"))
    ELSE IF response.choices = << >>
    THEN Err(UserFriendlyError("Format respons AI tidak valid. Silakan coba lagi.",
                               "No choices in OpenAI response"))
    ELSE IF ~response.choices[1].has_message
    THEN Err(UserFriendlyError("Pesan dari AI kosong. Silakan coba lagi.",
                               "No message in OpenAI response"))
    ELSE IF Strip(response.choices[1].content) = ""
    THEN Err(UserFriendlyError(
            "AI memberikan respons kosong. Silakan coba lagi dengan teks yang berbeda.",
            "Empty content in OpenAI response"))
    ELSE Ok(response.choices[1].content)

(***************************************************************************)
(* PoliticalReasoner._make_openai_request, the function the decorator      *)
(* wraps: the outcome of one call of chat.completions.create becomes a     *)
(* returned content or a raised UserFriendlyError.                         *)
(***************************************************************************)
make_openai_request(api) ==
    IF api.kind = "error"
    THEN Err(UserFriendlyError(parse_openai_error(api.text).message, api.text))
    ELSE validate_openai_response(api.response)

(***************************************************************************)
(* json.loads on the completion texts of the model: the texts that parse,  *)
(* with the object each parses to; any other text raises JSONDecodeError.  *)
(***************************************************************************)
JsonShortIssue == "{\"topics\": [\"hukum\"], \"key_issues\": [\"korupsi\"]}"

JsonLongIssue == "{\"sentiment\": {\"label\": \"negatif\", \"score\": 0.2}, \"key_issues\": [\"Kenaikan harga beras\", \"\"]}"

JsonNullTopics == "{\"topics\": null, \"key_issues\": [\"Kenaikan harga beras\"]}"

JsonEmptyObject == " {}"

JsonBlankIssue == "{\"key_issues\": [\"\"], \"public_impact\": \"high\", \"bias_detected\": true}"

JsonRecommendations == "{\"recommendations\": [\"Subsidi pangan untuk rumah tangga miskin\"]}"

JsonWithError == "{\"error\": \"tidak dapat memberi rekomendasi\"}"

BrokenJson == "{sentiment: positif, masalah pajak dan inflasi di Jakarta Pusat"

PlainAnalysis == "Harga pangan menjadi masalah utama tahun ini. pemerintah merespons cepat."

ShortText == "Baik."

json_table ==
    (JsonShortIssue :> [topics |-> JList(<< "hukum" >>), key_issues |-> JList(<< "korupsi" >>)])
    @@ (JsonLongIssue :> [sentiment  |-> JSentiment("negatif", 2),
                          key_issues |-> JList(<< "Kenaikan harga beras", "" >>)])
    @@ (JsonNullTopics :> [topics |-> JNull, key_issues |-> JList(<< "Kenaikan harga beras" >>)])
    @@ (JsonEmptyObject :> << >>)
    @@ (JsonBlankIssue :> [key_issues    |-> JList(<< "" >>),
                           public_impact |-> JStr("high"),
                           bias_detected |-> JBool(TRUE)])
    @@ (JsonRecommendations :>
            [recommendations |-> JList(<< "Subsidi pangan untuk rumah tangga miskin" >>)])
    @@ (JsonWithError :> [error |-> "tidak dapat memberi rekomendasi"])

json_loads(text) ==
    IF text \in DOMAIN json_table THEN Ok(json_table[text]) ELSE Err("JSONDecodeError")

(***************************************************************************)
(* utils.format_analysis_response                                          *)
(***************************************************************************)
DefaultSentiment == JSentiment("netral", 5)

DefaultImpactLow == JStr("low")

DefaultImpact == JStr("medium")

format_analysis_response(analysis_data) ==
    IF DOMAIN analysis_data = {}
    THEN [sentiment     |-> DefaultSentiment,
          topics        |-> JList(<< >>),
          entities      |-> JList(<< >>),
          key_issues    |-> JList(<< >>),
          bias_detected |-> JBool(FALSE),
          public_impact |-> DefaultImpact,
          timestamp     |-> JTime,
          status        |-> "success"]
    ELSE [sentiment     |-> DictGet(analysis_data, "sentiment", DefaultSentiment),
          topics        |-> DictGet(analysis_data, "topics", JList(<< >>)),
          entities      |-> DictGet(analysis_data, "entities", JList(<< >>)),
          key_issues    |-> DictGet(analysis_data, "key_issues", JList(<< >>)),
          bias_detected |-> DictGet(analysis_data, "bias_detected", JBool(FALSE)),
          public_impact |-> DictGet(analysis_data, "public_impact", DefaultImpact),
          timestamp     |-> DictGet(analysis_data, "timestamp", JTime),
          status        |-> "success"]

(***************************************************************************)
(* PoliticalReasoner._extract_topics_from_text, _extract_entities_from_text,*)
(* _extract_issues_from_text                                               *)
(***************************************************************************)
political_keywords ==
    << [topic |-> "ekonomi",
        keywords |-> << "ekonomi", "keuangan", "investasi", "bisnis", "perdagangan", "inflasi", "pajak" >>],
       [topic |-> "politik",
        keywords |-> << "politik", "partai", "pemilu", "demokrasi", "kekuasaan", "pemerintah" >>],
       [topic |-> "sosial",
        keywords |-> << "sosial", "masyarakat", "rakyat", "warga", "komunitas", "budaya" >>],
       [topic |-> "hukum",
        keywords |-> << "hukum", "regulasi", "kebijakan", "peraturan", "undang-undang", "yuridis" >>],
       [topic |-> "teknologi",
        keywords |-> << "digital", "teknologi", "internet", "sistem", "platform", "cyber" >>],
       [topic |-> "pendidikan",
        keywords |-> << "pendidikan", "sekolah", "universitas", "mahasiswa", "guru", "kurikulum" >>],
       [topic |-> "kesehatan",
        keywords |-> << "kesehatan", "rumah sakit", "dokter", "obat", "vaksin", "medis" >>],
       [topic |-> "lingkungan",
        keywords |-> << "lingkungan", "iklim", "polusi", "hutan", "energi", "sampah" >>] >>

FirstKeywordIn(text_lower, keywords) == Contains(text_lower, keywords[1])

AnyKeywordIn(text_lower, keywords) ==
    \E k \in 1..Len(keywords) : Contains(text_lower, keywords[k])

RECURSIVE FoundTopics(_, _)
FoundTopics(text_lower, i) ==
    IF i > Len(political_keywords) THEN << >>
    ELSE (IF AnyKeywordIn(text_lower, political_keywords[i].keywords)
          THEN << political_keywords[i].topic >> ELSE << >>)
         \o FoundTopics(text_lower, i + 1)

extract_topics_from_text(text) ==
    LET found_topics == FoundTopics(Lower(text), 1)
    IN  IF found_topics # << >> THEN Prefix(found_topics, 5) ELSE << "umum" >>

skip_words == { "Dalam", "Untuk", "Dengan", "Dari", "Pada", "Yang", "Akan", "Telah" }

IsUpperFirst(word) == SubSeq(word, 1, 1) \in UpperChars

RECURSIVE EntitiesFrom(_, _)
EntitiesFrom(words, i) ==
    IF i > Len(words) THEN << >>
    ELSE (IF Len(words[i]) > 2 /\ IsUpperFirst(words[i]) /\ words[i] \notin skip_words
          THEN IF i < Len(words) /\ IsUpperFirst(words[i + 1])
               THEN << words[i] \o " " \o words[i + 1] >>
               ELSE << words[i] >>
          ELSE << >>)
         \o EntitiesFrom(words, i + 1)

SeqRange(seq) == { seq[i] : i \in 1..Len(seq) }

\* list(set(entities)): the distinct entities in any order
Orderings(S) ==
    { f \in [1..Cardinality(S) -> S] : \A i, j \in 1..Cardinality(S) : f[i] = f[j] => i = j }

\* the lists _extract_entities_from_text can return for a text
extract_entities_from_text(text) ==
    { Prefix(o, 10) : o \in Orderings(SeqRange(EntitiesFrom(Words(text), 1))) }

issue_keywords ==
    << "masalah", "tantangan", "kendala", "hambatan", "isu",
       "persoalan", "kesulitan", "problem", "krisis", "konflik" >>

RECURSIVE IssuesFrom(_, _)
IssuesFrom(pieces, i) ==
    IF i > Len(pieces) THEN << >>
    ELSE LET sentence == Strip(pieces[i])
         IN  (IF /\ sentence # ""
                 /\ AnyKeywordIn(Lower(sentence), issue_keywords)
                 /\ Len(sentence) > 20
              THEN << sentence >> ELSE << >>)
             \o IssuesFrom(pieces, i + 1)

extract_issues_from_text(text) == Prefix(IssuesFrom(Split(text, "."), 1), 5)

(***************************************************************************)
(* PoliticalReasoner._structure_response; entities is one of the lists     *)
(* extract_entities_from_text(response) allows.                            *)
(***************************************************************************)
structure_response(response, entities) ==
    IF Strip(response) = ""
    THEN [error  |-> "AI memberikan respons kosong. Silakan coba dengan teks yang berbeda.",
          status |-> "error"]
    ELSE [sentiment     |-> DefaultSentiment,
          topics        |-> JList(extract_topics_from_text(response)),
          entities      |-> JList(entities),
          key_issues    |-> JList(extract_issues_from_text(response)),
          bias_detected |-> JBool(FALSE),
          public_impact |-> DefaultImpact,
          raw_analysis  |-> response,
          timestamp     |-> JTime]

(***************************************************************************)
(* PoliticalReasoner.extract_key_insights                                  *)
(***************************************************************************)
\* v[:n] raises TypeError unless v is a list or a string
Sliceable(v) == v.t \in { "list", "str" }

JSlice(v, n) == IF v.t = "list" THEN JList(Prefix(v.l, n)) ELSE JStr(Prefix(v.s, n))

extract_key_insights(analysis) ==
    IF "error" \in DOMAIN analysis
    THEN [error |-> analysis.error, status |-> "error"]
    ELSE LET topics     == DictGet(analysis, "topics", JList(<< >>))
             entities   == DictGet(analysis, "entities", JList(<< >>))
             key_issues == DictGet(analysis, "key_issues", JList(<< >>))
         IN  IF Sliceable(topics) /\ Sliceable(entities) /\ Sliceable(key_issues)
             THEN [sentiment_summary  |-> DictGet(analysis, "sentiment", DefaultSentiment),
                   main_topics        |-> JSlice(topics, 3),
                   political_entities |-> JSlice(entities, 5),
                   critical_issues    |-> JSlice(key_issues, 3),
                   impact_level       |-> DictGet(analysis, "public_impact", DefaultImpact),
                   bias_detected      |-> DictGet(analysis, "bias_detected", JBool(FALSE)),
                   timestamp          |-> DictGet(analysis, "timestamp", JTime),
                   status             |-> "success"]
             ELSE [error  |-> "Gagal mengekstrak insight dari hasil analisis.",
                   status |-> "error"]

(***************************************************************************)
(* The reasoner methods around _make_openai_request.  Each has a part      *)
(* before the request (validation; the result is an error dict or the      *)
(* go-ahead) and a part after it (from the wrapper's outcome to the        *)
(* returned dict).                                                         *)
(***************************************************************************)
UserFriendlyResult(e) ==
    [error |-> e.user_message, status |-> "error", error_type |-> "user_friendly"]

ErrorResult(message) == [error |-> message, status |-> "error"]

\* analyze_political_text up to the request
analyze_validation(text) ==
    LET v == validate_input_data([text |-> text], << "text" >>)
    IN  IF ~v.ok THEN v ELSE clean_text(text)

\* analyze_political_text after the request: the dicts it can return
analyze_results(outcome) ==
    IF outcome.kind = "raised"
    THEN { [error |-> outcome.user_message, status |-> "error", error_type |-> "user_friendly"] }
    ELSE LET response == outcome.value
         IN  IF StartsWith(Strip(response), "{") /\ json_loads(response).ok
             THEN { format_analysis_response(json_loads(response).v) }
             ELSE { structure_response(response, entities) :
                        entities \in extract_entities_from_text(response) }

MinNarrativeLength == 50

MinChatLength == 10

\* generate_narrative after the request
narrative_result(outcome) ==
    IF outcome.kind = "raised" THEN ErrorResult(outcome.user_message)
    ELSE IF outcome.value = "" \/ Len(Strip(outcome.value)) < MinNarrativeLength
    THEN ErrorResult("Narasi yang dihasilkan terlalu pendek atau kosong. Silakan coba lagi.")
    ELSE [narrative |-> outcome.value, status |-> "success"]

\* generate_policy_recommendations up to the request
policy_validation(context, issue) ==
    LET v == validate_input_data([context |-> context, issue |-> issue],
                                 << "context", "issue" >>)
    IN  IF ~v.ok THEN v
        ELSE IF ~clean_text(context).ok THEN clean_text(context)
        ELSE clean_text(issue)

WithStatus(parsed) ==
    [k \in DOMAIN parsed \cup { "status" } |-> IF k = "status" THEN "success" ELSE parsed[k]]

\* generate_policy_recommendations after the request
policy_result(outcome) ==
    IF outcome.kind = "raised" THEN ErrorResult(outcome.user_message)
    ELSE LET response == outcome.value
         IN  IF StartsWith(Strip(response), "{") /\ json_loads(response).ok
             THEN WithStatus(json_loads(response).v)
             ELSE [recommendations |->
                       JList(IF response # "" THEN << response >>
                             ELSE << "Tidak ada rekomendasi yang dapat dihasilkan" >>),
                   implementation_timeline |->
                       [phase_1 |-> "1-3 bulan", phase_2 |-> "3-6 bulan", phase_3 |-> "6-12 bulan"],
                   stakeholders |-> JList(<< "Pemerintah", "DPR", "Masyarakat", "Swasta" >>),
                   potential_challenges |->
                       JList(<< "Anggaran", "Koordinasi", "Implementasi", "Regulasi" >>),
                   status |-> "success"]

\* chat_response up to the request
chat_validation(question) ==
    LET v == validate_input_data([question |-> question], << "question" >>)
    IN  IF ~v.ok THEN v ELSE clean_text(question)

\* chat_response after the request
chat_result(outcome) ==
    IF outcome.kind = "raised" THEN ErrorResult(outcome.user_message)
    ELSE IF outcome.value = "" \/ Len(Strip(outcome.value)) < MinChatLength
    THEN ErrorResult("Respons AI terlalu pendek atau kosong. Silakan ajukan pertanyaan yang lebih spesifik.")
    ELSE [response |-> outcome.value, status |-> "success"]

(***************************************************************************)
(* routes.py: responses.  jsonify(body) alone is status 200.               *)
(***************************************************************************)
ResponseAlwaysOk(code, body) == [code |-> 200, body |-> body]

Response(code, body) == [code |-> code, body |-> body]

InternalServerError(text) == Response(500, [error |-> "Internal server error: " \o text])

\* data.get(...) on the None that request.get_json() gave
NoneGetError == "'NoneType' object has no attribute 'get'"

\* "not data.get(field)" for a request body whose values are strings
Missing(data, field) == field \notin DOMAIN data \/ data[field] = ""

\* insights.get('critical_issues') and len(insights['critical_issues']) > 0
HasCriticalIssues(insights) ==
    /\ "critical_issues" \in DOMAIN insights
    /\ ~JFalsy(insights.critical_issues)

\* insights['critical_issues'][0] if insights['critical_issues'][0] else "General policy issue"
MainIssue(insights) ==
    LET first == IF insights.critical_issues.t = "list"
                 THEN insights.critical_issues.l[1]
                 ELSE SubSeq(insights.critical_issues.s, 1, 1)
    IN  IF first # "" THEN first ELSE "General policy issue"

\* the condition of the optional stage of /complete-analysis
PolicyWanted(data, insights) ==
    /\ ~Missing(data, "policy_context")
    /\ HasCriticalIssues(insights)

complete_response_aborting(analysis, insights, narrative, recommendations) ==
    IF recommendations # PyNone /\ "error" \in DOMAIN recommendations
    THEN Response(500, [error |-> "Policy recommendations failed: " \o recommendations.error])
    ELSE Response(200,
                  [complete_analysis |->
                       [basic_analysis         |-> analysis,
                        key_insights           |-> insights,
                        narrative              |-> narrative,
                        policy_recommendations |-> recommendations],
                   status |-> "success"])

\* the end of /complete-analysis, from the result of the optional stage on
complete_response(analysis, insights, narrative, recommendations) ==
    Response(200,
             [complete_analysis |->
                  [basic_analysis         |-> analysis,
                   key_insights           |-> insights,
                   narrative              |-> narrative,
                   policy_recommendations |->
                       IF recommendations # PyNone /\ "error" \in DOMAIN recommendations
                       THEN [error |-> recommendations.error]
                       ELSE recommendations],
              status |-> "success"])

(***************************************************************************)
(* Delays are integers in units of 10^-5 s, exponential_base is in tenths, *)
(* so that delay * exponential_base and delay * 0.1 stay integral.         *)
(***************************************************************************)
InitialDelays == { 100000, 200000 }

ExponentialBases == { 11, 20 }

DefaultInitialDelay == 1 * 100000

DefaultExponentialBase == 2 * 10

NextDelayAdditive(d, base) == d + base

NextDelay(d, base) == (d * base) \div 10

\* random.uniform(0, delay * 0.1): the two ends of the interval
JitterOutcomes(d) == { 0, d \div 10 }

NoOutcome == [kind |-> "none", value |-> "", user_message |-> "", technical_message |-> ""]

Returned(v) == [kind |-> "returned", value |-> v, user_message |-> "", technical_message |-> ""]

Raised(e) ==
    [kind |-> "raised", value |-> "",
     user_message |-> e.user_message, technical_message |-> e.technical_message]

NoException == [set |-> FALSE, text |-> ""]

\* str(last_exception); str(None) is "None"
StrOfLast(le) == IF le.set THEN le.text ELSE "None"

RetryCountSuffix(n) == " Sudah dicoba " \o ToString(n) \o " kali."

(***************************************************************************)
(* retry_with_exponential_backoff.wrapper, one loop iteration per step.    *)
(* The wrapped func either returns a value or raises an exception whose    *)
(* str() is text.                                                          *)
(***************************************************************************)
WrapperEnter ==
    /\ attempt' = 0
    /\ delay' = initial_delay
    /\ last_exception' = NoException
    /\ w_pc' = "loop"
    /\ w_outcome' = NoOutcome
    /\ invocations' = 0
    /\ sleeps' = << >>
    /\ op_log' = << >>

LoopHasNext == attempt < max_retries

ShouldRetry(text) == is_retryable(Lower(text)) /\ attempt < max_retries - 1

\* try: return func(*args, **kwargs)
WrapperReturn(v) ==
    /\ w_pc = "loop"
    /\ LoopHasNext
    /\ invocations' = invocations + 1
    /\ op_log' = Append(op_log, [kind |-> "return", text |-> v])
    /\ w_outcome' = Returned(v)
    /\ w_pc' = "done"
    /\ UNCHANGED << attempt, delay, last_exception, sleeps >>

SleepTime(j) == IF jitter THEN delay + j ELSE delay

WrapperRetryNotCounted(text, j) ==
    /\ w_pc = "loop"
    /\ LoopHasNext
    /\ ShouldRetry(text)
    /\ j \in JitterOutcomes(delay)
    /\ jitter \/ j = 0
    /\ invocations' = invocations + 1
    /\ op_log' = Append(op_log, [kind |-> "raise", text |-> text])
    /\ last_exception' = [set |-> TRUE, text |-> text]
    /\ sleeps' = Append(sleeps, SleepTime(j))
    /\ delay' = NextDelay(delay, exponential_base)
    /\ UNCHANGED << attempt, w_pc, w_outcome >>

\* except Exception as e: retryable and attempts remain -> sleep, continue
WrapperRetry(text, j) ==
    /\ w_pc = "loop"
    /\ LoopHasNext
    /\ ShouldRetry(text)
    /\ j \in JitterOutcomes(delay)
    /\ jitter \/ j = 0
    /\ invocations' = invocations + 1
    /\ op_log' = Append(op_log, [kind |-> "raise", text |-> text])
    /\ last_exception' = [set |-> TRUE, text |-> text]
    /\ sleeps' = Append(sleeps, SleepTime(j))
    /\ delay' = NextDelay(delay, exponential_base)
    /\ attempt' = attempt + 1
    /\ UNCHANGED << w_pc, w_outcome >>

FinalUserMessage(text) == parse_openai_error(text).message

\* except Exception as e: not retryable, or the final attempt -> raise
WrapperRaise(text) ==
    /\ w_pc = "loop"
    /\ LoopHasNext
    /\ ~ShouldRetry(text)
    /\ invocations' = invocations + 1
    /\ op_log' = Append(op_log, [kind |-> "raise", text |-> text])
    /\ last_exception' = [set |-> TRUE, text |-> text]
    /\ w_outcome' = Raised(UserFriendlyError(FinalUserMessage(text), text))
    /\ w_pc' = "done"
    /\ UNCHANGED << attempt, delay, sleeps >>

WrapperExhaustedReturnsNone ==
    /\ w_pc = "loop"
    /\ ~LoopHasNext
    /\ w_outcome' = NoOutcome
    /\ w_pc' = "done"
    /\ UNCHANGED << attempt, delay, last_exception, invocations, sleeps, op_log >>

\* the statements after the for loop
WrapperExhausted ==
    /\ w_pc = "loop"
    /\ ~LoopHasNext
    /\ w_outcome' = Raised(UserFriendlyError(
                        parse_openai_error(StrOfLast(last_exception)).message
                            \o RetryCountSuffix(max_retries),
                        StrOfLast(last_exception)))
    /\ w_pc' = "done"
    /\ UNCHANGED << attempt, delay, last_exception, invocations, sleeps, op_log >>

(***************************************************************************)
(* The wrapper around an arbitrary operation, for arbitrary parameters.    *)
(***************************************************************************)
OpErrorTexts ==
    { "", "invalid_api_key", "Rate_Limit reached", "429 insufficient_quota" }

OpResults == { "result A", "result B" }

RetryInit ==
    /\ error_str = ""
    /\ classified = [done |-> FALSE, message |-> "", suggestion |-> "", retryable |-> FALSE]
    /\ max_retries \in 0..MaxRetriesBound
    /\ initial_delay \in InitialDelays
    /\ exponential_base \in ExponentialBases
    /\ jitter \in BOOLEAN
    /\ attempt = 0
    /\ delay = initial_delay
    /\ last_exception = NoException
    /\ w_pc = "loop"
    /\ w_outcome = NoOutcome
    /\ invocations = 0
    /\ sleeps = << >>
    /\ op_log = << >>
    /\ NoRequest
    /\ NoCall

OpReturns ==
    /\ \E v \in OpResults : WrapperReturn(v)
    /\ UNCHANGED << call_vars, classifier_vars, param_vars, route_vars >>

OpRaisesRetried ==
    /\ \E text \in OpErrorTexts : \E j \in JitterOutcomes(delay) : WrapperRetry(text, j)
    /\ UNCHANGED << call_vars, classifier_vars, param_vars, route_vars >>

OpRaisesFinal ==
    /\ \E text \in OpErrorTexts : WrapperRaise(text)
    /\ UNCHANGED << call_vars, classifier_vars, param_vars, route_vars >>

RetriesExhausted ==
    /\ WrapperExhausted
    /\ UNCHANGED << call_vars, classifier_vars, param_vars, route_vars >>

RetryNext == OpReturns \/ OpRaisesRetried \/ OpRaisesFinal \/ RetriesExhausted

RetrySpec == RetryInit /\ [][RetryNext]_vars

\* the wrapper runs in one thread and func returns or raises: every enabled
\* step is eventually taken
RetryFairSpec == RetrySpec /\ WF_vars(RetryNext)

(***************************************************************************)
(* The HTTP handlers of routes.py.  A handler runs from the request to its *)
(* first call of _make_openai_request (or to its response), the decorated  *)
(* call runs attempt by attempt, and the handler resumes when it ends.     *)
(* The prompt and the message list are not part of the state: the          *)
(* completion API of the model answers independently of them.              *)
(***************************************************************************)
ValidText == "Harga  beras naik tajam"

TextInputs == { "", "   ", "pajak", ValidText }

Body(data) == [json |-> TRUE, data |-> data]

\* request.get_json() gave None
NullBody == [json |-> FALSE, data |-> << >>]

AnalyzeBodies ==
    { NullBody, Body(<< >>) } \cup { Body([text |-> t]) : t \in TextInputs }

CompleteBodies ==
    { NullBody, Body(<< >>), Body([text |-> "pajak"]), Body([text |-> ValidText]) }
    \cup { Body([text |-> ValidText, policy_context |-> c]) :
              c \in { "pangan", "Kebijakan pangan nasional" } }

PolicyBodies ==
    { NullBody, Body(<< >>), Body([context |-> "Kebijakan pangan nasional"]) }
    \cup { Body([context |-> c, issue |-> i]) :
              c \in { "pangan", "Kebijakan pangan nasional" },
              i \in { "korupsi", "Kenaikan harga beras" } }

ChatBodies ==
    { NullBody, Body(<< >>) }
    \cup { Body([question |-> q]) : q \in { "", "Apa?", "Apa dampak kenaikan pajak?" } }

NarrativeBodies ==
    { NullBody, Body(<< >>),
      Body([analysis_data |-> << >>]),
      Body([analysis_data |-> [error |-> "Teks terlalu pendek.", status |-> "error"]]),
      Body([analysis_data |-> format_analysis_response(<< >>)]) }

\* what chat.completions.create can do: raise, or return a response object
ApiErrorTexts ==
    { "Error code: 429 - too many requests", "Incorrect API key: invalid_api_key" }

Contents == { JsonShortIssue, JsonLongIssue, JsonNullTopics, PlainAnalysis, ShortText }

Completion(content) ==
    [kind     |-> "response",
     response |-> [present |-> TRUE,
                   choices |-> << [has_message |-> TRUE, content |-> content] >>]]

ApiOutcomes ==
    { [kind |-> "error", text |-> t] : t \in ApiErrorTexts }
    \cup { Completion(c) : c \in Contents }
    \cup { [kind |-> "response", response |-> [present |-> TRUE, choices |-> << >>]] }

\* the decorator arguments of _make_openai_request
RequestMaxRetries == 3

RoutesInit ==
    /\ error_str = ""
    /\ classified = [done |-> FALSE, message |-> "", suggestion |-> "", retryable |-> FALSE]
    /\ max_retries = RequestMaxRetries
    /\ initial_delay = DefaultInitialDelay
    /\ exponential_base = DefaultExponentialBase
    /\ jitter = TRUE
    /\ attempt = 0
    /\ delay = initial_delay
    /\ last_exception = NoException
    /\ w_pc = "idle"
    /\ w_outcome = NoOutcome
    /\ invocations = 0
    /\ sleeps = << >>
    /\ op_log = << >>
    /\ NoRequest
    /\ NoCall

\* the handler returns its response
Answer(resp, a, i, n, po, log, verr) ==
    /\ r_response' = resp
    /\ r_pc' = "responded"
    /\ r_analysis' = a
    /\ r_insights' = i
    /\ r_narrative' = n
    /\ r_policy' = po
    /\ stage_log' = log
    /\ validation_error' = verr
    /\ UNCHANGED << stage, api_calls, wrapper_vars >>

\* the handler's reasoner method enters _make_openai_request
CallApi(stg, a, i, n, po, log) ==
    /\ WrapperEnter
    /\ r_pc' = "calling"
    /\ stage' = stg
    /\ r_analysis' = a
    /\ r_insights' = i
    /\ r_narrative' = n
    /\ r_policy' = po
    /\ stage_log' = log
    /\ UNCHANGED << r_response, api_calls, validation_error >>

Receive(route, b) ==
    /\ r_pc = "idle"
    /\ req' = [route |-> route, json |-> b.json, data |-> b.data]

Resume(route, stg) ==
    /\ r_pc = "calling"
    /\ w_pc = "done"
    /\ req.route = route
    /\ stage = stg
    /\ UNCHANGED req

\* one attempt of the decorated _make_openai_request
ApiReturns ==
    /\ r_pc = "calling"
    /\ \E api \in ApiOutcomes :
          /\ make_openai_request(api).ok
          /\ WrapperReturn(make_openai_request(api).v)
    /\ api_calls' = Append(api_calls, stage)
    /\ UNCHANGED << call_vars, classifier_vars, param_vars, req, r_pc, stage, r_analysis, r_insights,
                    r_narrative, r_policy, r_response, stage_log, validation_error >>

ApiRaisesRetried ==
    /\ r_pc = "calling"
    /\ \E api \in ApiOutcomes : \E j \in JitterOutcomes(delay) :
          /\ ~make_openai_request(api).ok
          /\ WrapperRetry(StrOfError(make_openai_request(api).e), j)
    /\ api_calls' = Append(api_calls, stage)
    /\ UNCHANGED << call_vars, classifier_vars, param_vars, req, r_pc, stage, r_analysis, r_insights,
                    r_narrative, r_policy, r_response, stage_log, validation_error >>

ApiRaisesFinal ==
    /\ r_pc = "calling"
    /\ \E api \in ApiOutcomes :
          /\ ~make_openai_request(api).ok
          /\ WrapperRaise(StrOfError(make_openai_request(api).e))
    /\ api_calls' = Append(api_calls, stage)
    /\ UNCHANGED << call_vars, classifier_vars, param_vars, req, r_pc, stage, r_analysis, r_insights,
                    r_narrative, r_policy, r_response, stage_log, validation_error >>

HasError(dict) == "error" \in DOMAIN dict

(***************************************************************************)
(* /analyze                                                                *)
(***************************************************************************)
AnalyzeBegin ==
    /\ \E b \in AnalyzeBodies :
          /\ Receive("analyze", b)
          /\ IF ~b.json
             THEN Answer(InternalServerError(NoneGetError),
                         PyNone, PyNone, PyNone, PyNone, << >>, FALSE)
             ELSE IF Missing(b.data, "text")
             THEN Answer(Response(400, [error |-> "Text is required"]),
                         PyNone, PyNone, PyNone, PyNone, << >>, TRUE)
             ELSE LET v == analyze_validation(b.data.text)
                  IN  IF ~v.ok
                      THEN Answer(Response(500, [error |-> v.e.user_message]),
                                  UserFriendlyResult(v.e), PyNone, PyNone, PyNone,
                                  << "analysis" >>, TRUE)
                      ELSE CallApi("analysis", PyNone, PyNone, PyNone, PyNone, << "analysis" >>)
    /\ UNCHANGED << call_vars, classifier_vars, param_vars >>

AnalyzeEnd ==
    /\ Resume("analyze", "analysis")
    /\ \E a \in analyze_results(w_outcome) :
          IF HasError(a)
          THEN Answer(Response(500, [error |-> a.error]),
                      a, PyNone, PyNone, PyNone, stage_log, validation_error)
          ELSE LET i == extract_key_insights(a)
               IN  Answer(IF HasError(i)
                          THEN Response(500, [error |-> i.error])
                          ELSE Response(200, [analysis |-> a, key_insights |-> i,
                                              status |-> "success"]),
                          a, i, PyNone, PyNone, Append(stage_log, "insights"),
                          validation_error)
    /\ UNCHANGED << call_vars, classifier_vars, param_vars >>

(***************************************************************************)
(* /generate-narrative                                                     *)
(***************************************************************************)
NarrativeBegin ==
    /\ \E b \in NarrativeBodies :
          /\ Receive("narrative", b)
          /\ IF ~b.json
             THEN Answer(InternalServerError(NoneGetError),
                         PyNone, PyNone, PyNone, PyNone, << >>, FALSE)
             ELSE IF "analysis_data" \notin DOMAIN b.data \/ DOMAIN b.data.analysis_data = {}
             THEN Answer(Response(400, [error |-> "Analysis data is required"]),
                         PyNone, PyNone, PyNone, PyNone, << >>, TRUE)
             ELSE IF HasError(b.data.analysis_data)
             THEN Answer(Response(500, [error |-> b.data.analysis_data.error]),
                         PyNone, PyNone, ErrorResult(b.data.analysis_data.error), PyNone,
                         << "narrative" >>, FALSE)
             ELSE CallApi("narrative", PyNone, PyNone, PyNone, PyNone, << "narrative" >>)
    /\ UNCHANGED << call_vars, classifier_vars, param_vars >>

NarrativeEnd ==
    /\ Resume("narrative", "narrative")
    /\ LET n == narrative_result(w_outcome)
       IN  Answer(IF HasError(n)
                  THEN Response(500, [error |-> n.error])
                  ELSE Response(200, [narrative |-> n]),
                  PyNone, PyNone, n, PyNone, stage_log, validation_error)
    /\ UNCHANGED << call_vars, classifier_vars, param_vars >>

(***************************************************************************)
(* /policy-recommendations                                                 *)
(***************************************************************************)
PolicyBegin ==
    /\ \E b \in PolicyBodies :
          /\ Receive("policy", b)
          /\ IF ~b.json
             THEN Answer(InternalServerError(NoneGetError),
                         PyNone, PyNone, PyNone, PyNone, << >>, FALSE)
             ELSE IF Missing(b.data, "context") \/ Missing(b.data, "issue")
             THEN Answer(Response(400, [error |-> "Context and issue are required"]),
                         PyNone, PyNone, PyNone, PyNone, << >>, TRUE)
             ELSE LET v == policy_validation(b.data.context, b.data.issue)
                  IN  IF ~v.ok
                      THEN Answer(Response(500, [error |-> v.e.user_message]),
                                  PyNone, PyNone, PyNone, ErrorResult(v.e.user_message),
                                  << "policy" >>, TRUE)
                      ELSE CallApi("policy", PyNone, PyNone, PyNone, PyNone, << "policy" >>)
    /\ UNCHANGED << call_vars, classifier_vars, param_vars >>

PolicyEnd ==
    /\ Resume("policy", "policy")
    /\ LET po == policy_result(w_outcome)
       IN  Answer(IF HasError(po)
                  THEN Response(500, [error |-> po.error])
                  ELSE Response(200, [recommendations |-> po]),
                  PyNone, PyNone, PyNone, po, stage_log, validation_error)
    /\ UNCHANGED << call_vars, classifier_vars, param_vars >>

(***************************************************************************)
(* /chat                                                                   *)
(***************************************************************************)
ChatBegin ==
    /\ \E b \in ChatBodies :
          /\ Receive("chat", b)
          /\ IF ~b.json
             THEN Answer(InternalServerError(NoneGetError),
                         PyNone, PyNone, PyNone, PyNone, << >>, FALSE)
             ELSE IF Missing(b.data, "question")
             THEN Answer(Response(400, [error |-> "Question is required"]),
                         PyNone, PyNone, PyNone, PyNone, << >>, TRUE)
             ELSE LET v == chat_validation(b.data.question)
                  IN  IF ~v.ok
                      THEN Answer(Response(500, [error |-> v.e.user_message]),
                                  PyNone, PyNone, PyNone, PyNone, << "chat" >>, TRUE)
                      ELSE CallApi("chat", PyNone, PyNone, PyNone, PyNone, << "chat" >>)
    /\ UNCHANGED << call_vars, classifier_vars, param_vars >>

ChatEnd ==
    /\ Resume("chat", "chat")
    /\ LET c == chat_result(w_outcome)
       IN  Answer(IF HasError(c)
                  THEN Response(500, [error |-> c.error])
                  ELSE Response(200, [response |-> c]),
                  PyNone, PyNone, PyNone, PyNone, stage_log, validation_error)
    /\ UNCHANGED << call_vars, classifier_vars, param_vars >>

(***************************************************************************)
(* /complete-analysis                                                      *)
(***************************************************************************)
CompleteBegin ==
    /\ \E b \in CompleteBodies :
          /\ Receive("complete", b)
          /\ IF ~b.json
             THEN Answer(InternalServerError(NoneGetError),
                         PyNone, PyNone, PyNone, PyNone, << >>, FALSE)
             ELSE IF Missing(b.data, "text")
             THEN Answer(Response(400, [error |-> "Text is required"]),
                         PyNone, PyNone, PyNone, PyNone, << >>, TRUE)
             ELSE LET v == analyze_validation(b.data.text)
                  IN  IF ~v.ok
                      THEN Answer(Response(500, [error |-> "Analysis failed: " \o v.e.user_message]),
                                  UserFriendlyResult(v.e), PyNone, PyNone, PyNone,
                                  << "analysis" >>, TRUE)
                      ELSE CallApi("analysis", PyNone, PyNone, PyNone, PyNone, << "analysis" >>)
    /\ UNCHANGED << call_vars, classifier_vars, param_vars >>

CompleteAfterAnalysis ==
    /\ Resume("complete", "analysis")
    /\ \E a \in analyze_results(w_outcome) :
          IF HasError(a)
          THEN Answer(Response(500, [error |-> "Analysis failed: " \o a.error]),
                      a, PyNone, PyNone, PyNone, stage_log, validation_error)
          ELSE LET i == extract_key_insights(a)
               IN  IF HasError(i)
                   THEN Answer(Response(500, [error |-> "Insights extraction failed: " \o i.error]),
                               a, i, PyNone, PyNone, Append(stage_log, "insights"),
                               validation_error)
                   ELSE CallApi("narrative", a, i, PyNone, PyNone,
                                stage_log \o << "insights", "narrative" >>)
    /\ UNCHANGED << call_vars, classifier_vars, param_vars >>

NarrativeFailedNever(n) == FALSE

\* if "error" in narrative
NarrativeFailed(n) == HasError(n)

CompleteAfterNarrative ==
    /\ Resume("complete", "narrative")
    /\ LET n == narrative_result(w_outcome)
       IN  IF NarrativeFailed(n)
           THEN Answer(Response(500, [error |-> "Narrative generation failed: " \o n.error]),
                       r_analysis, r_insights, n, PyNone, stage_log, validation_error)
           ELSE IF ~PolicyWanted(req.data, r_insights)
           THEN Answer(complete_response(r_analysis, r_insights, n, PyNone),
                       r_analysis, r_insights, n, PyNone, stage_log, validation_error)
           ELSE LET v == policy_validation(req.data.policy_context, MainIssue(r_insights))
                IN  IF ~v.ok
                    THEN Answer(complete_response(r_analysis, r_insights, n,
                                                  ErrorResult(v.e.user_message)),
                                r_analysis, r_insights, n, ErrorResult(v.e.user_message),
                                Append(stage_log, "policy"), TRUE)
                    ELSE CallApi("policy", r_analysis, r_insights, n, PyNone,
                                 Append(stage_log, "policy"))
    /\ UNCHANGED << call_vars, classifier_vars, param_vars >>

CompleteAfterPolicy ==
    /\ Resume("complete", "policy")
    /\ LET po == policy_result(w_outcome)
       IN  Answer(complete_response(r_analysis, r_insights, r_narrative, po),
                  r_analysis, r_insights, r_narrative, po, stage_log, validation_error)
    /\ UNCHANGED << call_vars, classifier_vars, param_vars >>

(***************************************************************************)
(* /health: OpenAIManager.test_connection succeeds or returns the text of  *)
(* the exception; its request to the responses endpoint is not one of the  *)
(* completion calls counted in api_calls.                                  *)
(***************************************************************************)
ConnectionResults ==
    { [ok |-> TRUE, msg |-> "Connection successful"] }
    \cup { [ok |-> FALSE, msg |-> t] : t \in ApiErrorTexts }

Health ==
    /\ r_pc = "idle"
    /\ req' = [route |-> "health", json |-> TRUE, data |-> << >>]
    /\ \E c \in ConnectionResults :
          Answer(Response(200, [status  |-> IF c.ok THEN "healthy" ELSE "unhealthy",
                                message |-> c.msg]),
                 PyNone, PyNone, PyNone, PyNone, << >>, FALSE)
    /\ UNCHANGED << call_vars, classifier_vars, param_vars >>

RoutesNext ==
    \/ Health
    \/ AnalyzeBegin \/ AnalyzeEnd
    \/ NarrativeBegin \/ NarrativeEnd
    \/ PolicyBegin \/ PolicyEnd
    \/ ChatBegin \/ ChatEnd
    \/ CompleteBegin \/ CompleteAfterAnalysis \/ CompleteAfterNarrative \/ CompleteAfterPolicy
    \/ ApiReturns \/ ApiRaisesRetried \/ ApiRaisesFinal

\* with max_retries = 3 the statements after the for loop (WrapperExhausted)
\* are never reached, so they are no step of the handlers
RoutesSpec == RoutesInit /\ [][RoutesNext]_vars

(***************************************************************************)
(* Properties of the retry wrapper.                                        *)
(***************************************************************************)
IsRetryableRaise(o) == o.kind = "raise" /\ is_retryable(Lower(o.text))

IsFinalRaise(o) == o.kind = "raise" /\ ~is_retryable(Lower(o.text))

AllAttemptsRetryable ==
    /\ w_pc = "done"
    /\ max_retries >= 1
    /\ Len(op_log) = max_retries
    /\ \A k \in 1..Len(op_log) : IsRetryableRaise(op_log[k])

\* C1: for max_retries >= 1, whatever the wrapped operation does, one call
\* of the wrapper invokes it at most max_retries times.
C1_AtMostMaxRetries == max_retries >= 1 => invocations <= max_retries

C1_Witness ==
    /\ w_pc = "done"
    /\ max_retries >= 2
    /\ invocations = max_retries
    /\ w_outcome.kind = "returned"

EndsProperly ==
    \/ /\ w_outcome.kind = "returned"
       /\ op_log # << >>
       /\ op_log[Len(op_log)].kind = "return"
       /\ w_outcome.value = op_log[Len(op_log)].text
    \/ /\ w_outcome.kind = "raised"
       /\ w_outcome.user_message # ""
       /\ op_log # << >> => op_log[Len(op_log)].kind = "raise"

\* C2: every call of the wrapper terminates, and it ends either by
\* returning the value of a successful invocation or by raising a
\* UserFriendlyError; a failed last invocation is never turned into a
\* return, and the call never ends without an outcome.
C2_TerminatesProperly ==
    /\ <>(w_pc = "done")
    /\ [](w_pc = "done" => EndsProperly)

C2_Witness ==
    /\ w_pc = "done"
    /\ w_outcome.kind = "raised"
    /\ Len(op_log) = 2
    /\ op_log[1].kind = "raise"

RECURSIVE BaseDelay(_)
\* initial_delay * exponential_base^(k-1), exponential_base in tenths
BaseDelay(k) == IF k = 1 THEN initial_delay ELSE (BaseDelay(k - 1) * exponential_base) \div 10

\* C3 as stated: with an operation that always raises a retryable error the
\* wrapper sleeps max_retries - 1 times, the first sleep is initial_delay,
\* each later sleep is exponential_base times the one before, and the sleeps
\* strictly increase.
C3_ExactGeometricSleeps ==
    AllAttemptsRetryable =>
        /\ Len(sleeps) = max_retries - 1
        /\ sleeps # << >> => sleeps[1] = initial_delay
        /\ \A k \in 1..(Len(sleeps) - 1) :
              /\ sleeps[k + 1] * 10 = sleeps[k] * exponential_base
              /\ sleeps[k + 1] > sleeps[k]

\* C3 amended: with an operation that always raises a retryable error the
\* wrapper sleeps max_retries - 1 times; the k-th sleep lasts
\* d_k = initial_delay * exponential_base^(k-1), plus, when jitter is
\* enabled, an addition between 0 and d_k / 10; the sleeps strictly increase
\* whenever exponential_base is above 1.1.
C3_GeometricSleepsWithJitter ==
    AllAttemptsRetryable =>
        /\ Len(sleeps) = max_retries - 1
        /\ \A k \in 1..Len(sleeps) :
              IF jitter
              THEN /\ BaseDelay(k) <= sleeps[k]
                   /\ sleeps[k] * 10 <= BaseDelay(k) * 11
              ELSE sleeps[k] = BaseDelay(k)
        /\ exponential_base > 11 =>
              \A k \in 1..(Len(sleeps) - 1) : sleeps[k + 1] > sleeps[k]

C3_Witness ==
    /\ AllAttemptsRetryable
    /\ jitter
    /\ Len(sleeps) >= 2
    /\ sleeps[1] > initial_delay
    /\ sleeps[2] = BaseDelay(2)

\* C4: when all max_retries attempts fail with a retryable error, the raised
\* error's user message is the classifier's message followed by the retry
\* count.
C4_ExhaustedMessageHasRetryCount ==
    AllAttemptsRetryable =>
        /\ w_outcome.kind = "raised"
        /\ w_outcome.user_message =
              parse_openai_error(op_log[Len(op_log)].text).message
                  \o RetryCountSuffix(max_retries)

\* C5: when the operation raises a non-retryable error the wrapper raises at
\* once: that invocation is the last, no sleep follows it, and the raised
\* error has the classifier's message for the text as user_message and the
\* text itself as technical_message.
C5_NonRetryableRaisesImmediately ==
    (w_pc = "done" /\ op_log # << >> /\ IsFinalRaise(op_log[Len(op_log)])) =>
        /\ invocations = Len(op_log)
        /\ Len(sleeps) = Len(op_log) - 1
        /\ w_outcome.kind = "raised"
        /\ w_outcome.user_message = parse_openai_error(op_log[Len(op_log)].text).message
        /\ w_outcome.technical_message = op_log[Len(op_log)].text

(***************************************************************************)
(* The classifier on its own: an error string is drawn, then classified    *)
(* the way the wrapper does (utils.py:89-96).                              *)
(***************************************************************************)
Unclassified == [done |-> FALSE, message |-> "", suggestion |-> "", retryable |-> FALSE]

ClassifyInit ==
    /\ error_str \in ErrorStrings
    /\ classified = Unclassified
    /\ max_retries = 0
    /\ initial_delay = DefaultInitialDelay
    /\ exponential_base = DefaultExponentialBase
    /\ jitter = TRUE
    /\ attempt = 0
    /\ delay = initial_delay
    /\ last_exception = NoException
    /\ w_pc = "idle"
    /\ w_outcome = NoOutcome
    /\ invocations = 0
    /\ sleeps = << >>
    /\ op_log = << >>
    /\ NoRequest
    /\ NoCall

Classify ==
    /\ ~classified.done
    /\ classified' =
          [done       |-> TRUE,
           message    |-> parse_openai_error(error_str).message,
           suggestion |-> parse_openai_error(error_str).suggestion,
           retryable  |-> is_retryable(Lower(error_str))]
    /\ UNCHANGED << error_str, call_vars, param_vars, wrapper_vars, route_vars >>

ClassifyNext == Classify

ClassifySpec == ClassifyInit /\ [][ClassifyNext]_vars

(***************************************************************************)
(* Properties of the classifier.                                           *)
(***************************************************************************)
HasKeyword(s, p) == Contains(Lower(s), p)

HasAnyKeyword(s) ==
    \E p \in { "insufficient_quota", "rate_limit", "invalid_api_key", "model_not_found",
               "context_length_exceeded", "server_error", "timeout", "network_error" } :
        HasKeyword(s, p)

HasAnyStatus(s) ==
    \E c \in { "429", "500", "502", "503", "401", "403" } : Contains(s, c)

RateLimitMessage == "Terlalu banyak permintaan dalam waktu singkat. Mohon tunggu sebentar."

RateLimitSuggestion == "Silakan coba lagi dalam 1-2 menit."

IsRateLimitResult ==
    /\ classified.message = RateLimitMessage
    /\ classified.suggestion = RateLimitSuggestion

MentionsRateLimit == Contains(error_str, "429") \/ Contains(error_str, "rate_limit")

\* C6 as stated: every error string containing "429" or "rate_limit" is
\* marked retryable and classified with the rate-limit message and
\* suggestion.
C6_RateLimitAlways ==
    (classified.done /\ MentionsRateLimit) =>
        /\ classified.retryable
        /\ IsRateLimitResult

\* C6 amended: every error string containing "429" or "rate_limit" is marked
\* retryable; it is classified with the rate-limit message and suggestion
\* provided its lowercased text does not contain "insufficient_quota" and
\* either contains "rate_limit" or contains none of the other table keywords.
C6_RateLimitUnlessEarlierKeyword ==
    (classified.done /\ MentionsRateLimit) =>
        /\ classified.retryable
        /\ ( /\ ~HasKeyword(error_str, "insufficient_quota")
             /\ HasKeyword(error_str, "rate_limit") \/ ~HasAnyKeyword(error_str) )
           => IsRateLimitResult

C6_Witness ==
    /\ classified.done
    /\ Contains(error_str, "429")
    /\ ~HasAnyKeyword(error_str)
    /\ classified.retryable
    /\ IsRateLimitResult

\* C7: an error string with none of the eight keywords (case-insensitively)
\* and none of the status substrings 429, 500, 502, 503, 401, 403 is
\* classified with the generic fallback message and suggestion.
C7_FallbackWhenNothingMatches ==
    (classified.done /\ ~HasAnyKeyword(error_str) /\ ~HasAnyStatus(error_str)) =>
        /\ classified.message = "Sistem AI mengalami kendala teknis sementara."
        /\ classified.suggestion =
              "Silakan coba lagi dalam beberapa menit atau hubungi support jika masalah berlanjut."

C7_Witness ==
    /\ classified.done
    /\ Contains(error_str, "29")
    /\ Contains(error_str, "connection refused")
    /\ ~HasAnyKeyword(error_str)
    /\ ~HasAnyStatus(error_str)
    /\ classified.message = "Sistem AI mengalami kendala teknis sementara."

(***************************************************************************)
(* Properties of /complete-analysis and of the handlers' validation, under *)
(* RoutesSpec.                                                             *)
(***************************************************************************)
StageOrder == << "analysis", "insights", "narrative", "policy" >>

IsPrefix(s, t) == Len(s) <= Len(t) /\ s = SubSeq(t, 1, Len(s))

StageRank(stg) == CHOOSE k \in 1..Len(StageOrder) : StageOrder[k] = stg

Called(stg) == \E k \in 1..Len(api_calls) : api_calls[k] = stg

Failed(result) == result # PyNone /\ HasError(result)

Reports(code, text) ==
    /\ r_pc = "responded"
    /\ r_response = Response(code, [error |-> text])

Composite == req # PyNone /\ req.route = "complete"

\* the optional stage would have been entered and would have passed its validation
PolicyWouldRun ==
    /\ PolicyWanted(req.data, r_insights)
    /\ policy_validation(req.data.policy_context, MainIssue(r_insights)).ok

\* C8: in /complete-analysis the stages are entered in the order analysis,
\* insights, narrative, policy, and so are their API calls; when one of the
\* first three stages returns an error the response is the 500 naming that
\* stage and no later stage has been entered or has called the API.
C8_StagesInOrderAndAbort ==
    Composite =>
        /\ IsPrefix(stage_log, StageOrder)
        /\ \A k \in 1..Len(api_calls) :
              /\ \E m \in 1..Len(stage_log) : stage_log[m] = api_calls[k]
              /\ k > 1 => StageRank(api_calls[k - 1]) <= StageRank(api_calls[k])
        /\ Failed(r_analysis) =>
              /\ Reports(500, "Analysis failed: " \o r_analysis.error)
              /\ stage_log = << "analysis" >>
              /\ ~Called("narrative") /\ ~Called("policy")
        /\ Failed(r_insights) =>
              /\ Reports(500, "Insights extraction failed: " \o r_insights.error)
              /\ stage_log = << "analysis", "insights" >>
              /\ ~Called("narrative") /\ ~Called("policy")
        /\ Failed(r_narrative) =>
              /\ Reports(500, "Narrative generation failed: " \o r_narrative.error)
              /\ stage_log = << "analysis", "insights", "narrative" >>
              /\ ~Called("policy")

\* the narrative stage failed on a request whose policy stage would have run
C8_Witness ==
    /\ Composite
    /\ Failed(r_narrative)
    /\ Called("narrative")
    /\ PolicyWouldRun
    /\ Reports(500, "Narrative generation failed: " \o r_narrative.error)

\* C9: in /complete-analysis, when the policy stage was entered and returned
\* an error, the response is the 200 success response carrying the results of
\* analysis, insights and narrative, none of them an error, with
\* policy_recommendations holding just the policy stage's error.
C9_PolicyFailureEmbedded ==
    (Composite /\ Failed(r_policy)) =>
        /\ r_pc = "responded"
        /\ ~HasError(r_analysis) /\ ~HasError(r_insights) /\ ~HasError(r_narrative)
        /\ r_analysis # PyNone /\ r_insights # PyNone /\ r_narrative # PyNone
        /\ r_response =
              Response(200,
                       [complete_analysis |->
                            [basic_analysis         |-> r_analysis,
                             key_insights           |-> r_insights,
                             narrative              |-> r_narrative,
                             policy_recommendations |-> [error |-> r_policy.error]],
                        status |-> "success"])

\* the policy stage called the API and failed there
C9_Witness ==
    /\ Composite
    /\ Failed(r_policy)
    /\ Called("policy")
    /\ r_pc = "responded"
    /\ r_response.code = 200

\* C10: whenever a request has produced a validation error, no call of the
\* completion API was made during that request.
C10_NoApiCallBeforeValidationError ==
    validation_error => api_calls = << >>

(***************************************************************************)
(* Properties of the responses of all handlers, under RoutesSpec.          *)
(***************************************************************************)
\* str(e) of the exceptions raised while the request was handled
TechnicalDetails ==
    (IF w_outcome.kind = "raised" THEN { w_outcome.technical_message } ELSE {})
    \cup (IF last_exception.set THEN { last_exception.text } ELSE {})
    \cup (IF req # PyNone /\ ~req.json THEN { NoneGetError } ELSE {})

ErrorResponse == r_pc = "responded" /\ HasError(r_response.body)

\* C11: the error field of an error response never contains the text of an
\* exception raised while the request was handled.
C11_NoTechnicalDetailInResponse ==
    ErrorResponse =>
        \A t \in TechnicalDetails : t # "" => ~Contains(r_response.body.error, t)

AnalysisFields ==
    { "sentiment", "topics", "entities", "key_issues", "bias_detected", "public_impact",
      "timestamp" }

IsSuccessRecord(a) ==
    /\ "status" \in DOMAIN a
    /\ a.status = "success"
    /\ AnalysisFields \subseteq DOMAIN a
    /\ "error" \notin DOMAIN a

IsErrorRecord(a) ==
    /\ "status" \in DOMAIN a
    /\ a.status = "error"
    /\ "error" \in DOMAIN a
    /\ DOMAIN a \cap AnalysisFields = {}

\* C12: every record analyze_political_text returns has status success with
\* all analysis fields and no error field, or status error with an error
\* field and no analysis field.
C12_AnalysisRecordWellFormed ==
    r_analysis # PyNone => (IsSuccessRecord(r_analysis) \/ IsErrorRecord(r_analysis))

(***************************************************************************)
(* Single calls of the pure functions: clean_text, format_analysis_response *)
(* and _extract_topics_from_text, each on an argument drawn from a set     *)
(* that covers the cases of its code.                                      *)
(***************************************************************************)
RECURSIVE Repeat(_, _)
\* c * n
Repeat(c, n) ==
    IF n = 0 THEN ""
    ELSE IF n = 1 THEN c
    ELSE LET h == Repeat(c, n \div 2)
         IN  h \o h \o (IF n % 2 = 1 THEN c ELSE "")

\* lengths of the whitespace-collapsed text around both limits of clean_text
TextLengths ==
    { 0, 1, MinTextLength - 1, MinTextLength, MinTextLength + 1,
      MaxTextLength - 1, MaxTextLength, MaxTextLength + 1, MaxTextLength + 1000 }

\* word lists whose words and single separators add up to n characters
WordLists(n) ==
    IF n = 0 THEN { << >> }
    ELSE { << Repeat("x", n) >> }
         \cup (IF n >= 4 THEN { << "ab", Repeat("x", n - 3) >>, << Repeat("x", n - 2), "y" >> }
               ELSE {})

CleanTexts ==
    { lead \o Join(words, gap) \o trail :
        lead \in { "", " " }, trail \in { "", "\n" }, gap \in { " ", "  ", "\t\n" },
        words \in UNION { WordLists(n) : n \in TextLengths } }

CallsIdle ==
    /\ error_str = ""
    /\ classified = [done |-> FALSE, message |-> "", suggestion |-> "", retryable |-> FALSE]
    /\ max_retries = 0
    /\ initial_delay = DefaultInitialDelay
    /\ exponential_base = DefaultExponentialBase
    /\ jitter = TRUE
    /\ attempt = 0
    /\ delay = initial_delay
    /\ last_exception = NoException
    /\ w_pc = "idle"
    /\ w_outcome = NoOutcome
    /\ invocations = 0
    /\ sleeps = << >>
    /\ op_log = << >>
    /\ NoRequest

\* the keys format_analysis_response reads, each absent from the parsed
\* object or present with one of two values
FormatKeys ==
    { "sentiment", "topics", "entities", "key_issues", "bias_detected", "public_impact" }

KeyValue(k, n) ==
    IF k = "sentiment" THEN (IF n = 1 THEN JSentiment("negatif", 2) ELSE JNull)
    ELSE IF k = "topics" THEN (IF n = 1 THEN JList(<< "hukum", "ekonomi" >>) ELSE JNull)
    ELSE IF k = "entities" THEN (IF n = 1 THEN JList(<< "DPR" >>) ELSE JList(<< >>))
    ELSE IF k = "key_issues" THEN (IF n = 1 THEN JList(<< "korupsi" >>) ELSE JStr("korupsi"))
    ELSE IF k = "bias_detected" THEN JBool(n = 1)
    ELSE (IF n = 1 THEN JStr("high") ELSE JStr("low"))

ParsedObjects ==
    { [k \in { x \in FormatKeys : choice[x] # 0 } |-> KeyValue(k, choice[k])] :
        choice \in [FormatKeys -> 0..2] }

\* texts for _extract_topics_from_text: for every set of topics a text made
\* of one keyword of each, in table order after a sentence without keywords
\* or in reverse table order with the topic's own name
TopicWord(i, own) ==
    IF own THEN political_keywords[i].keywords[IF i = 5 THEN 2 ELSE 1]
    ELSE << "Pajak", "pemilu", "WARGA", "regulasi", "digital", "Guru", "rumah sakit",
            "hutan" >>[i]

RECURSIVE TopicText(_, _, _)
TopicText(chosen, i, own) ==
    IF i > Len(political_keywords) THEN ""
    ELSE LET rest == TopicText(chosen, i + 1, own)
             word == IF i \in chosen THEN TopicWord(i, own) ELSE ""
         IN  IF word = "" THEN rest
             ELSE IF rest = "" THEN word
             ELSE IF own THEN rest \o " " \o word
             ELSE word \o ", " \o rest

TopicTexts ==
    { TopicText(chosen, 1, TRUE) : chosen \in SUBSET (1..Len(political_keywords)) }
    \cup { "Harga beras naik. " \o TopicText(chosen, 1, FALSE) :
              chosen \in SUBSET (1..Len(political_keywords)) }
    \cup { "Kebijakan ekonomi dan pajak daerah",
            "EKONOMI: pajak, pemilu, warga, hukum, digital, sekolah, vaksin, iklim" }

CallsInit ==
    /\ CallsIdle
    /\ call_result = PyNone
    /\ calls = << >>
    /\ \/ /\ callee = "clean_text"
          /\ arg_text \in CleanTexts
          /\ arg_data = << >>
       \/ /\ callee = "format_analysis_response"
          /\ arg_text = ""
          /\ arg_data \in ParsedObjects
       \/ /\ callee = "extract_topics_from_text"
          /\ arg_text \in TopicTexts
          /\ arg_data = << >>

CallCleanText ==
    /\ callee = "clean_text"
    /\ call_result = PyNone
    /\ call_result' = clean_text(arg_text)
    /\ UNCHANGED << callee, arg_text, arg_data, calls, classifier_vars, param_vars,
                    wrapper_vars, route_vars >>

CallFormatAnalysis ==
    /\ callee = "format_analysis_response"
    /\ call_result = PyNone
    /\ call_result' = format_analysis_response(arg_data)
    /\ UNCHANGED << callee, arg_text, arg_data, calls, classifier_vars, param_vars,
                    wrapper_vars, route_vars >>

CallExtractTopics ==
    /\ callee = "extract_topics_from_text"
    /\ call_result = PyNone
    /\ call_result' = [topics |-> extract_topics_from_text(arg_text)]
    /\ UNCHANGED << callee, arg_text, arg_data, calls, classifier_vars, param_vars,
                    wrapper_vars, route_vars >>

CallsNext == CallCleanText \/ CallFormatAnalysis \/ CallExtractTopics

CallsSpec == CallsInit /\ [][CallsNext]_vars

(***************************************************************************)
(* Properties of clean_text, under CallsSpec.                              *)
(***************************************************************************)
Collapsed(t) == Join(Words(t), " ")

Cleaned == callee = "clean_text" /\ call_result # PyNone

CitesMinimum(e) == Contains(e.user_message, "Minimal " \o ToString(MinTextLength) \o " karakter")

LongAndMiddleTextsCleaned ==
    LET c == Collapsed(arg_text)
    IN  /\ Len(c) > MaxTextLength =>
              /\ call_result.ok
              /\ call_result.v = SubSeq(c, 1, MaxTextLength) \o "..."
        /\ (Len(c) >= MinTextLength /\ Len(c) <= MaxTextLength) =>
              /\ call_result.ok
              /\ call_result.v = c

\* C13 as stated: every text whose collapsed form has fewer than 10
\* characters raises the error citing the minimum of 10, one over 10000 is
\* cut to its first 10000 characters plus "...", any other is returned
\* collapsed.
C13_CleanTextBounds ==
    Cleaned =>
        /\ Len(Collapsed(arg_text)) < MinTextLength =>
              (~call_result.ok /\ CitesMinimum(call_result.e))
        /\ LongAndMiddleTextsCleaned

\* C13 amended: the empty text raises the empty-text error; a non-empty text
\* whose collapsed form has fewer than 10 characters raises the error citing
\* the minimum of 10; the other two cases as stated.
C13_CleanTextBoundsNonEmpty ==
    Cleaned =>
        /\ arg_text = "" =>
              (~call_result.ok /\ Contains(call_result.e.user_message, "tidak boleh kosong"))
        /\ (arg_text # "" /\ Len(Collapsed(arg_text)) < MinTextLength) =>
              (~call_result.ok /\ CitesMinimum(call_result.e))
        /\ LongAndMiddleTextsCleaned

\* a text with runs of whitespace was cut at the cap
C13_Witness ==
    /\ Cleaned
    /\ Len(Collapsed(arg_text)) > MaxTextLength
    /\ arg_text # Collapsed(arg_text)
    /\ call_result.ok
    /\ Len(call_result.v) = MaxTextLength + 3

(***************************************************************************)
(* Properties of format_analysis_response, under CallsSpec.                *)
(***************************************************************************)
Formatted == callee = "format_analysis_response" /\ call_result # PyNone

DocumentedDefault(k) ==
    IF k = "sentiment" THEN [t |-> "sentiment", label |-> "netral", score |-> 5]
    ELSE IF k \in { "topics", "entities", "key_issues" } THEN [t |-> "list", l |-> << >>]
    ELSE IF k = "bias_detected" THEN [t |-> "bool", b |-> FALSE]
    ELSE [t |-> "str", s |-> "medium"]

\* C14: the result of format_analysis_response keeps, for each of the six
\* keys, the value of the parsed object when the key is present and has the
\* documented default when it is absent.
C14_FormatRoundTrip ==
    Formatted =>
        \A k \in FormatKeys :
            /\ k \in DOMAIN call_result
            /\ call_result[k] = (IF k \in DOMAIN arg_data THEN arg_data[k]
                                 ELSE DocumentedDefault(k))

\* an object with some keys present (one of them null) and others absent
C14_Witness ==
    /\ Formatted
    /\ "topics" \in DOMAIN arg_data
    /\ arg_data["topics"] = [t |-> "null"]
    /\ "key_issues" \in DOMAIN arg_data
    /\ "sentiment" \notin DOMAIN arg_data
    /\ "public_impact" \notin DOMAIN arg_data
    /\ call_result["topics"] = [t |-> "null"]
    /\ call_result["public_impact"] = [t |-> "str", s |-> "medium"]

\* C15: a response whose body has a top-level error field has status 400 or
\* 500, and a response with status 200 has no top-level error field.
C15_ErrorFieldIffNotOk ==
    r_pc = "responded" =>
        /\ r_response.code \in { 200, 400, 500 }
        /\ HasError(r_response.body) => r_response.code \in { 400, 500 }
        /\ r_response.code = 200 => ~HasError(r_response.body)

\* a 200 response of /complete-analysis that holds an error below the top level
C15_Witness ==
    /\ r_pc = "responded"
    /\ Composite
    /\ r_response.code = 200
    /\ "complete_analysis" \in DOMAIN r_response.body
    /\ HasError(r_response.body.complete_analysis.policy_recommendations)

(***************************************************************************)
(* Several calls of the decorated _make_openai_request running             *)
(* concurrently.  attempt, delay and last_exception are locals of wrapper, *)
(* so each call has its own; max_retries, initial_delay, exponential_base  *)
(* and jitter are the decorator's arguments, shared and never written.     *)
(* A step is one loop iteration of one call.                               *)
(***************************************************************************)
CallIds == 1..MaxCalls

NewCall ==
    [attempt        |-> 0,
     delay          |-> initial_delay,
     last_exception |-> NoException,
     pc             |-> "loop",
     outcome        |-> NoOutcome,
     invocations    |-> 0,
     sleeps         |-> << >>,
     op_log         |-> << >>]

ConcurrentErrorTexts == { "Rate_Limit reached", "invalid_api_key" }

ConcurrentResults == { "result A" }

ConcurrentInit ==
    /\ error_str = ""
    /\ classified = [done |-> FALSE, message |-> "", suggestion |-> "", retryable |-> FALSE]
    /\ max_retries = RequestMaxRetries
    /\ initial_delay = DefaultInitialDelay
    /\ exponential_base = DefaultExponentialBase
    /\ jitter = TRUE
    /\ attempt = 0
    /\ delay = initial_delay
    /\ last_exception = NoException
    /\ w_pc = "idle"
    /\ w_outcome = NoOutcome
    /\ invocations = 0
    /\ sleeps = << >>
    /\ op_log = << >>
    /\ NoRequest
    /\ callee = ""
    /\ arg_text = ""
    /\ arg_data = << >>
    /\ call_result = PyNone
    /\ calls = [i \in CallIds |-> NewCall]

\* for attempt in range(max_retries), in the call with locals l
InLoop(l) == l.pc = "loop" /\ l.attempt < max_retries

Retryable(l, text) == is_retryable(Lower(text)) /\ l.attempt < max_retries - 1

\* return func(*args, **kwargs)
Returning(l, v) ==
    [l EXCEPT !.invocations = @ + 1,
              !.op_log = Append(@, [kind |-> "return", text |-> v]),
              !.outcome = Returned(v),
              !.pc = "done"]

\* retryable and attempts remain: sleep, delay *= exponential_base, continue
Retrying(l, text, j) ==
    [l EXCEPT !.invocations = @ + 1,
              !.op_log = Append(@, [kind |-> "raise", text |-> text]),
              !.last_exception = [set |-> TRUE, text |-> text],
              !.sleeps = Append(@, IF jitter THEN l.delay + j ELSE l.delay),
              !.delay = NextDelay(@, exponential_base),
              !.attempt = @ + 1]

\* raise UserFriendlyError(user_msg, str(e))
Raising(l, text) ==
    [l EXCEPT !.invocations = @ + 1,
              !.op_log = Append(@, [kind |-> "raise", text |-> text]),
              !.last_exception = [set |-> TRUE, text |-> text],
              !.outcome = Raised(UserFriendlyError(parse_openai_error(text).message, text)),
              !.pc = "done"]

OthersUntouched ==
    UNCHANGED << callee, arg_text, arg_data, call_result, classifier_vars, param_vars,
                 wrapper_vars, route_vars >>

CallReturns ==
    /\ \E i \in CallIds : \E v \in ConcurrentResults :
          /\ InLoop(calls[i])
          /\ calls' = [calls EXCEPT ![i] = Returning(calls[i], v)]
    /\ OthersUntouched

CallRaisesRetriedSharedDelay ==
    /\ \E i \in CallIds : \E text \in ConcurrentErrorTexts :
       \E j \in JitterOutcomes(calls[i].delay) :
          /\ InLoop(calls[i])
          /\ Retryable(calls[i], text)
          /\ calls' = [k \in CallIds |->
                          IF k = i THEN Retrying(calls[i], text, j)
                          ELSE [calls[k] EXCEPT
                                   !.delay = NextDelay(calls[i].delay, exponential_base)]]
    /\ OthersUntouched

CallRaisesRetried ==
    /\ \E i \in CallIds : \E text \in ConcurrentErrorTexts :
       \E j \in JitterOutcomes(calls[i].delay) :
          /\ InLoop(calls[i])
          /\ Retryable(calls[i], text)
          /\ calls' = [calls EXCEPT ![i] = Retrying(calls[i], text, j)]
    /\ OthersUntouched

CallRaisesFinal ==
    /\ \E i \in CallIds : \E text \in ConcurrentErrorTexts :
          /\ InLoop(calls[i])
          /\ ~Retryable(calls[i], text)
          /\ calls' = [calls EXCEPT ![i] = Raising(calls[i], text)]
    /\ OthersUntouched

ConcurrentNext == CallReturns \/ CallRaisesRetried \/ CallRaisesFinal

\* the decorator arguments of _make_openai_request: with max_retries = 3 the
\* statements after the loop are not reached
ConcurrentSpec == ConcurrentInit /\ [][ConcurrentNext]_vars

(***************************************************************************)
(* Properties of concurrent wrapper calls, under ConcurrentSpec.           *)
(***************************************************************************)
\* what one call does when it runs alone, in terms of the outcomes of its
\* own attempts: one invocation per log entry, one sleep per retried raise
\* with the k-th sleep the k-th geometric delay plus its jitter, and the
\* outcome decided by the last entry
SoloBehaviour(l) ==
    /\ l.invocations = Len(l.op_log)
    /\ l.invocations <= max_retries
    /\ Len(l.sleeps) = l.attempt
    /\ l.delay = BaseDelay(l.attempt + 1)
    /\ \A k \in 1..Len(l.sleeps) :
          /\ l.op_log[k].kind = "raise"
          /\ is_retryable(Lower(l.op_log[k].text))
          /\ (l.sleeps[k] - BaseDelay(k)) \in
                (IF jitter THEN JitterOutcomes(BaseDelay(k)) ELSE { 0 })
    /\ IF l.pc = "done"
       THEN /\ Len(l.op_log) = l.attempt + 1
            /\ LET last == l.op_log[Len(l.op_log)]
               IN  \/ /\ last.kind = "return"
                      /\ l.outcome = Returned(last.text)
                   \/ /\ last.kind = "raise"
                      /\ ~is_retryable(Lower(last.text)) \/ Len(l.op_log) = max_retries
                      /\ l.outcome =
                            Raised(UserFriendlyError(parse_openai_error(last.text).message,
                                                     last.text))
       ELSE /\ Len(l.op_log) = l.attempt
            /\ l.outcome = NoOutcome

\* C16: each of the concurrent calls has the invocations, the sleeps and the
\* outcome that its own attempts give when the call runs alone, in every
\* interleaving with the other calls.
C16_CallsIndependent ==
    \A i \in DOMAIN calls : SoloBehaviour(calls[i])

\* one call has finished after one retry while another, started at the same
\* time, is still in its loop after two retries with a different first sleep
C16_Witness ==
    /\ DOMAIN calls # {}
    /\ \E i \in DOMAIN calls : \E k \in DOMAIN calls :
          /\ i # k
          /\ calls[i].pc = "done"
          /\ calls[i].attempt = 1
          /\ calls[k].pc = "loop"
          /\ calls[k].attempt = 2
          /\ calls[i].sleeps[1] # calls[k].sleeps[1]

(***************************************************************************)
(* Properties of the classifier's scan order, under ClassifySpec.          *)
(***************************************************************************)
KeywordOrder ==
    << "insufficient_quota", "rate_limit", "invalid_api_key", "model_not_found",
       "context_length_exceeded", "server_error", "timeout", "network_error" >>

KeywordHits == { k \in 1..Len(KeywordOrder) : HasKeyword(error_str, KeywordOrder[k]) }

\* C17: the message is that of the first keyword, in table order, contained
\* in the lowercased error text, whichever other keywords or status
\* substrings the text contains; without any keyword it is decided by 429,
\* then 500/502/503, then 401/403.
C17_FirstKeywordWins ==
    classified.done =>
        IF KeywordHits # {}
        THEN classified.message =
                PatternInfo(KeywordOrder[CHOOSE k \in KeywordHits :
                                            \A m \in KeywordHits : k <= m]).message
        ELSE IF Contains(error_str, "429")
        THEN classified.message = PatternInfo("rate_limit").message
        ELSE IF \E c \in { "500", "502", "503" } : Contains(error_str, c)
        THEN classified.message = PatternInfo("server_error").message
        ELSE (\E c \in { "401", "403" } : Contains(error_str, c)) =>
                classified.message = PatternInfo("invalid_api_key").message

\* a later keyword of the table stands first in the text and the earlier wins
C17_Witness ==
    /\ classified.done
    /\ error_str = "timeoutrate_limit"
    /\ classified.message = RateLimitMessage

(***************************************************************************)
(* Properties of _extract_topics_from_text, under CallsSpec.               *)
(***************************************************************************)
Extracted == callee = "extract_topics_from_text" /\ call_result # PyNone

\* the rows of the table with a keyword in the lowercased text
MatchingRows ==
    { i \in 1..Len(political_keywords) :
        \E k \in 1..Len(political_keywords[i].keywords) :
            Contains(Lower(arg_text), political_keywords[i].keywords[k]) }

\* C18: the topics returned are those of the matching rows of the table, in
\* table order, the first five when more match, and just "umum" when no row
\* matches; a text containing "ekonomi" and "pajak" gives a list with
\* "ekonomi" and at most five entries.
C18_TopicsInTableOrder ==
    Extracted =>
        LET r == call_result.topics
        IN  /\ IF MatchingRows = {} THEN r = << "umum" >>
               ELSE /\ Len(r) = Min({ 5, Cardinality(MatchingRows) })
                    /\ \A n \in 1..Len(r) :
                          r[n] = political_keywords[Kth(MatchingRows, n)].topic
            /\ (Contains(arg_text, "ekonomi") /\ Contains(arg_text, "pajak")) =>
                  /\ \E n \in 1..Len(r) : r[n] = "ekonomi"
                  /\ Len(r) <= 5

\* more than five topics match, met in the text in reverse table order
C18_Witness ==
    /\ Extracted
    /\ Cardinality(MatchingRows) = 7
    /\ Contains(arg_text, "lingkungan")
    /\ Contains(arg_text, "ekonomi")
    /\ call_result.topics = << "ekonomi", "politik", "sosial", "hukum", "teknologi" >>

(***************************************************************************)
(* Number of completion calls of one request, under RoutesSpec.            *)
(***************************************************************************)
CallsOf(stg) == Cardinality({ k \in 1..Len(api_calls) : api_calls[k] = stg })

Ran(stg) == \E m \in 1..Len(stage_log) : stage_log[m] = stg

\* C19: each of analyze_political_text, generate_narrative,
\* generate_policy_recommendations and chat_response makes at most 3 calls of
\* the completion API, extract_key_insights makes none, and one
\* /complete-analysis request makes at most 9 calls in total, whatever the
\* API answers.
C19_BoundedApiCalls ==
    /\ \A stg \in { "analysis", "narrative", "policy", "chat" } : CallsOf(stg) <= 3
    /\ CallsOf("insights") = 0
    /\ Composite => Len(api_calls) <= 9

\* a /complete-analysis request whose three calling stages each used all
\* their attempts, with extract_key_insights run in between
C19_Witness ==
    /\ Composite
    /\ r_pc = "responded"
    /\ Ran("insights")
    /\ CallsOf("analysis") = 3
    /\ CallsOf("narrative") = 3
    /\ CallsOf("policy") = 3
    /\ Len(api_calls) = 9

====
